---- MODULE Spec2Model ----
(***************************************************************************)
(* State-machine model of the MCF incremental-crawl store                  *)
(* (src/src/mcf/lib/storage/duckdb_store.py), of the incremental crawl     *)
(* pipeline that drives it, of the embedding bookkeeping, of the           *)
(* command-line program (src/src/mcf/cli/cli.py) and of the HTTP query     *)
(* service (src/src/mcf/api/server.py).                                    *)
(*                                                                         *)
(* SQL tables are sets of rows (records).  SQL NULL is the string NULL in  *)
(* text columns and the empty tuple NullTime in timestamp columns.  A      *)
(* datetime is the tuple <<year, month, day, hour, minute, second,         *)
(* microsecond>>.  A run identifier is the sequence of the character codes *)
(* of the string strftime produces, so that Python's string comparison is  *)
(* the lexicographic comparison of the sequences.                          *)
(***************************************************************************)
EXTENDS Integers, Sequences, FiniteSets, TLC

VARIABLES
    clock,           \* the wall clock read by _utcnow()
    crawl_runs,      \* table crawl_runs
    jobs,            \* table jobs
    job_run_status,  \* table job_run_status
    job_embeddings,  \* table job_embeddings
    lastEmbedded,    \* history: per job, the arguments of its last upsert_embedding
    lastOp,          \* history: the last store call, its arguments and outcome
    runs,            \* the incremental-crawl processes (pipeline-local state)
    cli,             \* one invocation of the mcf command-line program
    server           \* the HTTP query service process

vars == <<clock, crawl_runs, jobs, job_run_status, job_embeddings, lastEmbedded, lastOp, runs,
          cli, server>>

----------------------------------------------------------------------------
(* Bounds and input sets *)

MaxTicks == 1        \* the clock advances at most this many microseconds
MaxDim == 2          \* longest embedding vector
MaxRuns == 3         \* incremental runs one process performs

JobIds == {"j1", "j2"}
Procs == {"A", "B"}

\* What a crawl process remembers of a finished run, and a process at rest.
NoSummary == [valid |-> FALSE, listed |-> {}, added |-> {}, maintained |-> {},
              removed |-> {}, failed |-> {}, total_seen |-> 0]
IdleRun == [pc |-> "idle", run_id |-> <<>>, listed |-> {}, added |-> {},
            maintained |-> {}, removed |-> {}, todo |-> {}, failed |-> {},
            done_runs |-> 0, last |-> NoSummary, prev |-> NoSummary]
\* The command-line program before a command is dispatched.
IdleCli == [cmd |-> "none", pc |-> "idle", model |-> "", limit |-> <<>>, top |-> 0,
            store |-> "unopened", embedders |-> 0, missing |-> <<>>, vectors |-> <<>>,
            written |-> <<>>, resume_vec |-> <<>>, rows |-> <<>>, printed |-> <<>>,
            text |-> <<>>, exit |-> "running", status |-> 0, stdout |-> "", stderr |-> ""]
\* The HTTP service process before its lifespan starts: _store is None.
NoResponse == [endpoint |-> "none", status |-> 0, detail |-> "", used_store |-> FALSE]
ServerDown == [phase |-> "down", database_url |-> "", _store |-> "None", store |-> "none",
               stores_created |-> 0, pending |-> <<>>, response |-> NoResponse]
NULL == "NULL"
NullTime == <<>>

\* The detail payloads upsert_new_job_detail is called with.
Payloads ==
    { [title |-> "T1", company_name |-> "C1", location |-> "L1", description |-> "D1", raw_json |-> "{1}"],
      [title |-> "T2", company_name |-> "C2", location |-> "L2", description |-> "D2", raw_json |-> "{2}"],
      [title |-> NULL, company_name |-> NULL, location |-> NULL, description |-> NULL, raw_json |-> "{}"] }

\* Embedding components, in tenths (-5 is -0.5, 10 is 1.0), and model names.
Scalars == {-5, 10}
ModelNames == {"all-MiniLM-L6-v2", "other-model"}
\* The vectors upsert_embedding is called with: the empty one and, for every
\* length up to MaxDim, one starting with each scalar and continuing with 1.0.
Vectors ==
    {<<>>} \cup {[i \in 1..n |-> IF i = 1 THEN s ELSE 10] : n \in 1..MaxDim, s \in Scalars}

CoalescedFields == {"title", "company_name", "location", "description"}

\* 2026-10-29T23:59:59.999999Z: one microsecond before every field below the
\* month rolls over.
StartClock == <<2026, 10, 29, 23, 59, 59, 999999>>

----------------------------------------------------------------------------
(* Time *)

\* Lexicographic "strictly less" on sequences of integers: Python's order on
\* str (by code point) and on datetime (by field).
RECURSIVE SeqLess(_, _)
SeqLess(a, b) ==
    IF b = <<>> THEN FALSE
    ELSE IF a = <<>> THEN TRUE
    ELSE IF Head(a) # Head(b) THEN Head(a) < Head(b)
    ELSE SeqLess(Tail(a), Tail(b))

\* The datetime one microsecond after t (within the month).
NextMicro(t) ==
    IF t[7] < 999999 THEN [t EXCEPT ![7] = t[7] + 1]
    ELSE IF t[6] < 59 THEN [t EXCEPT ![7] = 0, ![6] = t[6] + 1]
    ELSE IF t[5] < 59 THEN [t EXCEPT ![7] = 0, ![6] = 0, ![5] = t[5] + 1]
    ELSE IF t[4] < 23 THEN [t EXCEPT ![7] = 0, ![6] = 0, ![5] = 0, ![4] = t[4] + 1]
    ELSE [t EXCEPT ![7] = 0, ![6] = 0, ![5] = 0, ![4] = 0, ![3] = t[3] + 1]

RECURSIVE Elapsed(_, _)
\* Number of microseconds from datetime a to datetime b (a <= b, small).
Elapsed(a, b) == IF a = b THEN 0 ELSE 1 + Elapsed(NextMicro(a), b)

_utcnow == clock

RECURSIVE Pow10(_)
Pow10(n) == IF n = 0 THEN 1 ELSE 10 * Pow10(n - 1)

\* The character codes of n printed in decimal, zero-padded to w digits.
Digits(n, w) == [i \in 1..w |-> 48 + ((n \div Pow10(w - i)) % 10)]

\* started_at.strftime("%Y%m%dT%H%M%S.%fZ") as character codes
\* ("T" = 84, "." = 46, "Z" = 90).
strftime_time_only(t) ==
    Digits(t[4], 2) \o Digits(t[5], 2) \o Digits(t[6], 2)
        \o <<46>> \o Digits(t[7], 6) \o <<90>>

strftime(t) ==
    Digits(t[1], 4) \o Digits(t[2], 2) \o Digits(t[3], 2) \o <<84>>
        \o Digits(t[4], 2) \o Digits(t[5], 2) \o Digits(t[6], 2)
        \o <<46>> \o Digits(t[7], 6) \o <<90>>

----------------------------------------------------------------------------
(* Table access *)

RunIds == {r.run_id : r \in crawl_runs}
RunRowIn(tbl, id) == CHOOSE r \in tbl : r.run_id = id
RunRow(id) == RunRowIn(crawl_runs, id)

Stored(j) == \E r \in jobs : r.job_uuid = j
JobRow(j) == CHOOSE r \in jobs : r.job_uuid = j

\* SELECT job_uuid FROM jobs
existing_job_uuids_active_only == {r.job_uuid : r \in {q \in jobs : q.is_active}}

existing_job_uuids == {r.job_uuid : r \in jobs}

\* SELECT job_uuid FROM jobs WHERE is_active = TRUE
active_job_uuids == {r.job_uuid : r \in {q \in jobs : q.is_active = TRUE}}

\* SQL COALESCE(new, old)
CoalesceOverwrite(new, old) == new

COALESCE(new, old) == IF new # NULL THEN new ELSE old

----------------------------------------------------------------------------
(* Jobs table operations *)

\* The row INSERT INTO jobs ... VALUES (...) adds when job_uuid is new.
InsertedJobRow(run_id, job_uuid, p, now) ==
    [job_uuid |-> job_uuid,
     first_seen_run_id |-> run_id,
     last_seen_run_id |-> run_id,
     is_active |-> TRUE,
     first_seen_at |-> now,
     last_seen_at |-> now,
     title |-> p.title,
     company_name |-> p.company_name,
     location |-> p.location,
     description |-> p.description,
     raw_json |-> p.raw_json]

\* ON CONFLICT (job_uuid) DO UPDATE SET ...
ConflictUpdatedJobRowAsInserted(old, run_id, p, now) == InsertedJobRow(run_id, old.job_uuid, p, now)

ConflictUpdatedJobRow(old, run_id, p, now) ==
    [old EXCEPT
        !.last_seen_run_id = run_id,
        !.is_active = TRUE,
        !.last_seen_at = now,
        !.title = COALESCE(p.title, old.title),
        !.company_name = COALESCE(p.company_name, old.company_name),
        !.location = COALESCE(p.location, old.location),
        !.description = COALESCE(p.description, old.description),
        !.raw_json = COALESCE(p.raw_json, old.raw_json)]

\* The jobs table after upsert_new_job_detail.
UpsertedJobs(tbl, run_id, job_uuid, p, now) ==
    IF \E r \in tbl : r.job_uuid = job_uuid
    THEN {IF r.job_uuid = job_uuid THEN ConflictUpdatedJobRow(r, run_id, p, now) ELSE r : r \in tbl}
    ELSE tbl \cup {InsertedJobRow(run_id, job_uuid, p, now)}

\* UPDATE jobs SET last_seen_run_id = ?, last_seen_at = ?, is_active = TRUE
TouchedRowKeepFlag(r, run_id, now) ==
    [r EXCEPT !.last_seen_run_id = run_id, !.last_seen_at = now]

TouchedRow(r, run_id, now) ==
    [r EXCEPT !.last_seen_run_id = run_id, !.last_seen_at = now, !.is_active = TRUE]

\* UPDATE jobs SET last_seen_run_id = ?, last_seen_at = ?, is_active = FALSE
DeactivatedRow(r, run_id, now) ==
    [r EXCEPT !.last_seen_run_id = run_id, !.last_seen_at = now, !.is_active = FALSE]

\* The jobs table after touch_jobs / deactivate_jobs (WHERE job_uuid = ?
\* matches nothing for an identifier that is not stored).
TouchedJobsAll(tbl, run_id, uuids, now) ==
    {TouchedRow(r, run_id, now) : r \in tbl}

TouchedJobs(tbl, run_id, uuids, now) ==
    {IF r.job_uuid \in uuids THEN TouchedRow(r, run_id, now) ELSE r : r \in tbl}

DeactivatedJobsDeleted(tbl, run_id, uuids, now) == {r \in tbl : r.job_uuid \notin uuids}

DeactivatedJobs(tbl, run_id, uuids, now) ==
    {IF r.job_uuid \in uuids THEN DeactivatedRow(r, run_id, now) ELSE r : r \in tbl}

----------------------------------------------------------------------------
(* Store calls as actions *)

Init ==
    /\ clock = StartClock
    /\ crawl_runs = {}
    /\ jobs = {}
    /\ job_run_status = {}
    /\ job_embeddings = {}
    /\ lastEmbedded = {}
    /\ lastOp = [op |-> "init"]
    /\ runs = [p \in Procs |-> IdleRun]
    /\ cli = IdleCli
    /\ server = ServerDown

\* Time passes.
Tick ==
    /\ Elapsed(StartClock, clock) < MaxTicks
    /\ clock' = NextMicro(clock)
    /\ lastOp' = [op |-> "tick"]
    /\ UNCHANGED <<crawl_runs, jobs, job_run_status, job_embeddings, lastEmbedded, runs, cli, server>>

\* The crawl_runs row begin_run inserts.
BegunRunRow(started_at, kind, categories_json) ==
    [run_id |-> strftime(started_at),
     started_at |-> started_at,
     finished_at |-> NullTime,
     kind |-> kind,
     categories_json |-> categories_json,
     total_seen |-> 0, added |-> 0, maintained |-> 0, removed |-> 0]

\* begin_run: the INSERT fails on the primary key when the identifier exists.
begin_run(kind, categories_json) ==
    LET row == BegunRunRow(_utcnow, kind, categories_json) IN
    /\ row.run_id \notin RunIds
    /\ crawl_runs' = crawl_runs \cup {row}
    /\ lastOp' = [op |-> "begin_run", run_id |-> row.run_id]
    /\ UNCHANGED <<clock, jobs, job_run_status, job_embeddings, lastEmbedded>>

begin_run_conflict(kind, categories_json) ==
    LET row == BegunRunRow(_utcnow, kind, categories_json) IN
    /\ row.run_id \in RunIds
    /\ lastOp' = [op |-> "begin_run_error", run_id |-> row.run_id]
    /\ UNCHANGED <<clock, crawl_runs, jobs, job_run_status, job_embeddings, lastEmbedded>>

upsert_new_job_detail(run_id, job_uuid, p) ==
    /\ jobs' = UpsertedJobs(jobs, run_id, job_uuid, p, _utcnow)
    /\ lastOp' = [op |-> "upsert_new_job_detail", job_uuids |-> {job_uuid},
                  payload |-> p, pre_active |-> active_job_uuids, run_id |-> run_id]
    /\ UNCHANGED <<clock, crawl_runs, job_run_status, job_embeddings, lastEmbedded>>

touch_jobs_inserting(run_id, uuids) ==
    /\ jobs' = TouchedJobs(jobs, run_id, uuids, _utcnow)
                   \cup {InsertedJobRow(run_id, u, [title |-> NULL, company_name |-> NULL,
                                                   location |-> NULL, description |-> NULL,
                                                   raw_json |-> NULL], _utcnow)
                            : u \in uuids \ existing_job_uuids}
    /\ lastOp' = [op |-> "touch_jobs", job_uuids |-> uuids, pre_active |-> active_job_uuids]
    /\ UNCHANGED <<clock, crawl_runs, job_run_status, job_embeddings, lastEmbedded>>

touch_jobs(run_id, uuids) ==
    /\ jobs' = IF uuids = {} THEN jobs ELSE TouchedJobs(jobs, run_id, uuids, _utcnow)
    /\ lastOp' = [op |-> "touch_jobs", job_uuids |-> uuids, pre_active |-> active_job_uuids]
    /\ UNCHANGED <<clock, crawl_runs, job_run_status, job_embeddings, lastEmbedded>>

deactivate_jobs(run_id, uuids) ==
    /\ jobs' = IF uuids = {} THEN jobs ELSE DeactivatedJobs(jobs, run_id, uuids, _utcnow)
    /\ lastOp' = [op |-> "deactivate_jobs", job_uuids |-> uuids, pre_active |-> active_job_uuids]
    /\ UNCHANGED <<clock, crawl_runs, job_run_status, job_embeddings, lastEmbedded>>

\* UPDATE crawl_runs SET finished_at = ?, total_seen = ?, ... WHERE run_id = ?
FinishedRunRow(r, now, counts) ==
    [r EXCEPT !.finished_at = now,
              !.total_seen = counts[1],
              !.added = counts[2],
              !.maintained = counts[3],
              !.removed = counts[4]]

\* finish_run(run_id, total_seen=, added=, maintained=, removed=); counts is
\* <<total_seen, added, maintained, removed>>.
finish_run(run_id, counts) ==
    /\ crawl_runs' = {IF r.run_id = run_id THEN FinishedRunRow(r, _utcnow, counts) ELSE r
                        : r \in crawl_runs}
    /\ lastOp' = [op |-> "finish_run", run_id |-> run_id, counts |-> counts]
    /\ UNCHANGED <<clock, jobs, job_run_status, job_embeddings, lastEmbedded>>

\* json.dumps(list(categories) if categories else []) for a list of strings.
RECURSIVE JoinQuoted(_)
JoinQuoted(cats) ==
    IF cats = <<>> THEN ""
    ELSE "\"" \o Head(cats) \o "\""
            \o (IF Tail(cats) = <<>> THEN "" ELSE ", " \o JoinQuoted(Tail(cats)))

CategoriesJson(cats) == "[" \o JoinQuoted(cats) \o "]"

\* record_statuses: INSERT OR REPLACE of (run_id, uuid, status) for the added,
\* then the maintained, then the removed identifiers (a later row replaces an
\* earlier one with the same key).
StatusRows(run_id, added, maintained, removed) ==
    {[run_id |-> run_id,
      job_uuid |-> u,
      status |-> IF u \in removed THEN "removed"
                 ELSE IF u \in maintained THEN "maintained" ELSE "added"]
        : u \in added \cup maintained \cup removed}

\* INSERT OR REPLACE on the primary key (run_id, job_uuid).
RecordedStatusesAppended(tbl, rows) == tbl \cup rows

RecordedStatuses(tbl, rows) ==
    {s \in tbl : ~\E n \in rows : n.run_id = s.run_id /\ n.job_uuid = s.job_uuid} \cup rows

record_statuses(run_id, added, maintained, removed) ==
    /\ job_run_status' =
          RecordedStatuses(job_run_status, StatusRows(run_id, added, maintained, removed))
    /\ lastOp' = [op |-> "record_statuses", run_id |-> run_id, added |-> added,
                  maintained |-> maintained, removed |-> removed,
                  pre_status |-> {s \in job_run_status : s.run_id = run_id}]
    /\ UNCHANGED <<clock, crawl_runs, jobs, job_embeddings, lastEmbedded>>

----------------------------------------------------------------------------
(* Embeddings *)

\* repr() of the float v/10, as json.dumps writes it.
FloatRepr(v) ==
    (IF v < 0 THEN "-" ELSE "") \o ToString((IF v < 0 THEN -v ELSE v) \div 10)
        \o "." \o ToString((IF v < 0 THEN -v ELSE v) % 10)

RECURSIVE JoinFloats(_)
JoinFloats(vec) ==
    IF vec = <<>> THEN ""
    ELSE FloatRepr(Head(vec))
            \o (IF Tail(vec) = <<>> THEN "" ELSE ", " \o JoinFloats(Tail(vec)))

\* json.dumps(emb_list) for a list of floats
JsonDumpsFloats(vec) == "[" \o JoinFloats(vec) \o "]"

\* json.loads(emb_json): the list whose JSON text is s.
JsonLoadsFloats(s) == CHOOSE vec \in Vectors : JsonDumpsFloats(vec) = s

\* The row upsert_embedding writes: [job_uuid, model_name,
\* json.dumps(emb_list), len(emb_list), now].
EmbeddingRowDimOfJson(job_uuid, model_name, embedding, now) ==
    [job_uuid |-> job_uuid,
     model_name |-> model_name,
     embedding_json |-> JsonDumpsFloats(embedding),
     dim |-> Len(JsonDumpsFloats(embedding)),
     embedded_at |-> now]

EmbeddingRow(job_uuid, model_name, embedding, now) ==
    [job_uuid |-> job_uuid,
     model_name |-> model_name,
     embedding_json |-> JsonDumpsFloats(embedding),
     dim |-> Len(embedding),
     embedded_at |-> now]

\* INSERT INTO job_embeddings ... ON CONFLICT (job_uuid) DO UPDATE SET ...
UpsertedEmbeddingsDoNothing(tbl, row) ==
    IF \E e \in tbl : e.job_uuid = row.job_uuid THEN tbl ELSE tbl \cup {row}

UpsertedEmbeddings(tbl, row) ==
    {e \in tbl : e.job_uuid # row.job_uuid} \cup {row}

upsert_embedding(job_uuid, model_name, embedding) ==
    /\ job_embeddings' =
           UpsertedEmbeddings(job_embeddings,
                              EmbeddingRow(job_uuid, model_name, embedding, _utcnow))
    /\ lastEmbedded' = {g \in lastEmbedded : g.job_uuid # job_uuid}
            \cup {[job_uuid |-> job_uuid, model_name |-> model_name, embedding |-> embedding]}
    /\ lastOp' = [op |-> "upsert_embedding", job_uuids |-> {job_uuid},
                  pre_models |-> {e.model_name : e \in {x \in job_embeddings : x.job_uuid = job_uuid}}]
    /\ UNCHANGED <<clock, crawl_runs, jobs, job_run_status>>

\* SELECT j.job_uuid, j.description FROM jobs j LEFT JOIN job_embeddings e
\*  ON e.job_uuid = j.job_uuid WHERE j.is_active = TRUE AND e.job_uuid IS NULL
\*  AND j.description IS NOT NULL
MissingRowsAnyDescription ==
    {<<r.job_uuid, r.description>> :
        r \in {q \in jobs : (q.is_active = TRUE)
                             /\ (~\E e \in job_embeddings : e.job_uuid = q.job_uuid)}}

MissingRows ==
    {<<r.job_uuid, r.description>> :
        r \in {q \in jobs : (q.is_active = TRUE)
                             /\ (~\E e \in job_embeddings : e.job_uuid = q.job_uuid)
                             /\ (q.description # NULL)}}

\* The results jobs_missing_embeddings(limit=) can return.  limit is <<>> for
\* None and <<n>> for the integer n; "if limit and limit > 0" appends LIMIT n,
\* and without ORDER BY the engine may return any n of the rows.
jobs_missing_embeddings(limit) ==
    IF limit # <<>> /\ limit[1] # 0 /\ limit[1] > 0
    THEN {R \in SUBSET MissingRows :
            Cardinality(R) = IF limit[1] < Cardinality(MissingRows)
                             THEN limit[1] ELSE Cardinality(MissingRows)}
    ELSE {MissingRows}

\* A call of jobs_missing_embeddings: the result is recorded, nothing changes.
jobs_missing_embeddings_call(limit) ==
    /\ \E R \in jobs_missing_embeddings(limit) :
          lastOp' = [op |-> "jobs_missing_embeddings", limit |-> limit, result |-> R]
    /\ UNCHANGED <<clock, crawl_runs, jobs, job_run_status, job_embeddings, lastEmbedded>>

\* SELECT j.job_uuid, j.title, e.embedding_json FROM jobs j JOIN job_embeddings e
\*  ON e.job_uuid = j.job_uuid WHERE j.is_active = TRUE, each row returned as
\* (uuid, title or "", json.loads(emb_json)).
get_active_job_embeddings ==
    {<<r.job_uuid, IF r.title = NULL THEN "" ELSE r.title, JsonLoadsFloats(e.embedding_json)>> :
        <<r, e>> \in {x \in jobs \X job_embeddings :
                        x[1].job_uuid = x[2].job_uuid /\ x[1].is_active = TRUE}}

----------------------------------------------------------------------------
(* Spec: the jobs-table calls of the store, in any order.  Crawls on one
   store are sequential here, so a call is made on behalf of the run begun
   last; SpecConcurrent has the overlapping runs. *)

\* The identifier of the run begun last (none before the first begin_run).
CurRun == {r \in RunIds : \A q \in RunIds : q = r \/ SeqLess(q, r)}

BeginRunCall == begin_run("incremental", "[]") /\ UNCHANGED <<runs, cli, server>>
UpsertCall ==
    \E r \in CurRun, j \in JobIds, p \in Payloads :
        upsert_new_job_detail(r, j, p) /\ UNCHANGED <<runs, cli, server>>
TouchCall == \E r \in CurRun, u \in SUBSET JobIds : touch_jobs(r, u) /\ UNCHANGED <<runs, cli, server>>
DeactivateCall ==
    \E r \in CurRun, u \in SUBSET JobIds : deactivate_jobs(r, u) /\ UNCHANGED <<runs, cli, server>>

Next == Tick \/ BeginRunCall \/ UpsertCall \/ TouchCall \/ DeactivateCall

Spec == Init /\ [][Next]_vars

----------------------------------------------------------------------------
(* Claims about the jobs table *)

\* C1: upsert_new_job_detail on a stored job leaves each of title,
\* company_name, location and description as it was when the call passes
\* None for it, and sets it to the passed value otherwise.
C1_CoalescingUpsert ==
    [][lastOp'.op = "upsert_new_job_detail" =>
        \A j \in lastOp'.job_uuids : Stored(j) =>
            \A f \in CoalescedFields :
                JobRow(j)'[f] = IF lastOp'.payload[f] = NULL
                                THEN JobRow(j)[f]
                                ELSE lastOp'.payload[f]]_vars

\* A job stored with description "D1" has just been upserted with an absent
\* description (and still reads "D1").
C1_Witness ==
    /\ lastOp.op = "upsert_new_job_detail"
    /\ lastOp.payload.description = NULL
    /\ \E j \in lastOp.job_uuids : Stored(j) /\ JobRow(j).description = "D1"

\* C2: a stored inactive job that upsert_new_job_detail or touch_jobs is
\* called for is active afterwards, and no job whose is_active flag is false
\* is in active_job_uuids().
C2_DeactivationReversible ==
    [][/\ lastOp'.op \in {"upsert_new_job_detail", "touch_jobs"} =>
            \A j \in lastOp'.job_uuids :
                (Stored(j) /\ ~JobRow(j).is_active) =>
                    (JobRow(j)'.is_active /\ j \in active_job_uuids')
       /\ \A r \in jobs' : ~r.is_active => r.job_uuid \notin active_job_uuids']_vars

\* touch_jobs has just been called for a stored job that was inactive before
\* the call, and the job is active.
C2_Witness ==
    /\ lastOp.op = "touch_jobs"
    /\ \E j \in lastOp.job_uuids :
          Stored(j) /\ j \notin lastOp.pre_active /\ j \in active_job_uuids

----------------------------------------------------------------------------
(* SpecRuns: the run-lifecycle calls of the store, in any order. *)

\* The category filters a run is begun with (None and [] both store "[]").
CategoryInputs == {<<>>, <<"it">>, <<"it", "sales">>}

\* The <<total_seen, added, maintained, removed>> a run is finished with.
CountInputs == {<<0, 0, 0, 0>>, <<2, 2, 0, 0>>, <<2, 1, 1, 1>>}

BeginRunAny ==
    \E c \in CategoryInputs : begin_run("incremental", CategoriesJson(c)) /\ UNCHANGED <<runs, cli, server>>
BeginRunConflict ==
    \E c \in CategoryInputs :
        begin_run_conflict("incremental", CategoriesJson(c)) /\ UNCHANGED <<runs, cli, server>>
FinishRunCall == \E r \in RunIds, c \in CountInputs : finish_run(r, c) /\ UNCHANGED <<runs, cli, server>>

NextRuns == Tick \/ BeginRunAny \/ BeginRunConflict \/ FinishRunCall

SpecRuns == Init /\ [][NextRuns]_vars

\* C9: begin_run adds a run record with a null finish time and zero counts,
\* finish_run sets the finish time and the counts of its run, and a run
\* record whose finish time is set is never changed by a later store call.
C9_RunNeverMutatedAfterFinish ==
    [][/\ lastOp'.op = "begin_run" =>
            LET r == RunRowIn(crawl_runs', lastOp'.run_id) IN
            /\ lastOp'.run_id \notin RunIds
            /\ r.finished_at = NullTime
            /\ <<r.total_seen, r.added, r.maintained, r.removed>> = <<0, 0, 0, 0>>
       /\ lastOp'.op = "finish_run" =>
            LET r == RunRowIn(crawl_runs', lastOp'.run_id) IN
            /\ r.finished_at = clock
            /\ <<r.total_seen, r.added, r.maintained, r.removed>> = lastOp'.counts
       /\ \A r \in crawl_runs : r.finished_at # NullTime => r \in crawl_runs']_vars

\* C10: run records begun at increasing times have increasing identifiers
\* (as strings), and no two run records share an identifier.
C10_RunIdOrderedUnique ==
    \A r1, r2 \in crawl_runs :
        /\ SeqLess(r1.started_at, r2.started_at) => SeqLess(r1.run_id, r2.run_id)
        /\ r1.run_id = r2.run_id => r1 = r2

\* Two runs begun at different times are recorded, and a begin_run at the
\* time of a recorded run has just been refused.
C10_Witness ==
    /\ \E r1, r2 \in crawl_runs : SeqLess(r1.started_at, r2.started_at)
    /\ lastOp.op = "begin_run_error"

----------------------------------------------------------------------------
(* SpecEmbed: the embedding calls of the store, on jobs that are created,
   refreshed and deactivated by one run.  SpecMissing: the missing-embeddings
   query, on jobs that are created, refreshed, deactivated and embedded. *)

\* The jobs here are upserted with a full and with an empty detail payload.
EmbedPayloads == {p \in Payloads : p.description \in {"D1", NULL}}
UpsertCallEmbed ==
    \E r \in CurRun, j \in JobIds, p \in EmbedPayloads :
        upsert_new_job_detail(r, j, p) /\ UNCHANGED <<runs, cli, server>>

UpsertEmbeddingCall ==
    \E j \in JobIds, m \in ModelNames, v \in Vectors :
        upsert_embedding(j, m, v) /\ UNCHANGED <<runs, cli, server>>

NextEmbed == BeginRunCall \/ UpsertCallEmbed \/ DeactivateCall \/ UpsertEmbeddingCall

SpecEmbed == Init /\ [][NextEmbed]_vars

\* The limit= arguments of jobs_missing_embeddings (<<>> is None).
LimitInputs == {<<>>, <<0>>, <<1>>, <<2>>}

MissingEmbeddingsCall ==
    \E l \in LimitInputs : jobs_missing_embeddings_call(l) /\ UNCHANGED <<runs, cli, server>>
EmbedOneCall ==
    \E j \in JobIds : upsert_embedding(j, "all-MiniLM-L6-v2", <<10>>) /\ UNCHANGED <<runs, cli, server>>

NextMissing ==
    \/ BeginRunCall \/ UpsertCall \/ TouchCall \/ DeactivateCall
    \/ EmbedOneCall \/ MissingEmbeddingsCall

SpecMissing == Init /\ [][NextMissing]_vars

HasEmbedding(j) == \E e \in job_embeddings : e.job_uuid = j

\* A stored job that is active, has a description and has no embedding row.
NeedsEmbedding(j) ==
    Stored(j) /\ JobRow(j).is_active /\ JobRow(j).description # NULL /\ ~HasEmbedding(j)

\* C6 as stated: whatever the limit, the result of jobs_missing_embeddings
\* holds no job that is inactive, has no description or has an embedding
\* row, and holds every other stored job.
C6_MissingEmbeddingsExact ==
    lastOp.op = "jobs_missing_embeddings" =>
        \A j \in existing_job_uuids :
            (\E row \in lastOp.result : row[1] = j) <=> NeedsEmbedding(j)

\* C6 amended: the result never holds a job that is inactive, has no
\* description or has an embedding row; it holds every other stored job when
\* the call is uncapped (limit None or not positive) or the limit is at least
\* the number of such jobs.
C6_MissingEmbeddingsUpToLimit ==
    lastOp.op = "jobs_missing_embeddings" =>
        LET needing == {j \in existing_job_uuids : NeedsEmbedding(j)}
            uncapped == \/ lastOp.limit = <<>>
                        \/ lastOp.limit[1] <= 0
                        \/ lastOp.limit[1] >= Cardinality(needing)
        IN  /\ \A row \in lastOp.result :
                    NeedsEmbedding(row[1]) /\ row[2] = JobRow(row[1]).description
            /\ uncapped => \A j \in needing : \E row \in lastOp.result : row[1] = j

\* An uncapped call has just returned one job while another stored job is
\* left out because it has an embedding row.
C6_Witness ==
    /\ lastOp.op = "jobs_missing_embeddings"
    /\ lastOp.limit = <<>>
    /\ Cardinality(lastOp.result) = 1
    /\ \E j \in existing_job_uuids :
          HasEmbedding(j) /\ JobRow(j).is_active /\ JobRow(j).description # NULL

\* C7: every job_embeddings row has dim equal to the length of its stored
\* vector; the row of a job has dim equal to the length of the vector last
\* upserted for it, and get_active_job_embeddings returns, for an active job,
\* exactly that vector.
C7_EmbeddingDimension ==
    /\ \A e \in job_embeddings : e.dim = Len(JsonLoadsFloats(e.embedding_json))
    /\ \A g \in lastEmbedded :
          /\ \E e \in job_embeddings : e.job_uuid = g.job_uuid /\ e.dim = Len(g.embedding)
          /\ g.job_uuid \in active_job_uuids =>
                /\ \E t \in get_active_job_embeddings : t[1] = g.job_uuid
                /\ \A t \in get_active_job_embeddings :
                      t[1] = g.job_uuid => t[3] = g.embedding

\* An active job has been given a two-component embedding with a negative
\* component, and it is read back.
C7_Witness ==
    \E g \in lastEmbedded :
        /\ Len(g.embedding) = 2 /\ g.embedding[1] = -5
        /\ g.job_uuid \in active_job_uuids
        /\ \E t \in get_active_job_embeddings : t[1] = g.job_uuid /\ t[3] = g.embedding

\* C8: there is at most one job_embeddings row per job, rows exist only for
\* jobs upsert_embedding was called for, and the row carries the model name,
\* vector and dim of the last call for that job.
C8_OneEmbeddingPerJob ==
    /\ \A e1, e2 \in job_embeddings : e1.job_uuid = e2.job_uuid => e1 = e2
    /\ {e.job_uuid : e \in job_embeddings} = {g.job_uuid : g \in lastEmbedded}
    /\ \A g \in lastEmbedded : \A e \in job_embeddings :
          e.job_uuid = g.job_uuid =>
              /\ e.model_name = g.model_name
              /\ JsonLoadsFloats(e.embedding_json) = g.embedding
              /\ e.dim = Len(g.embedding)

\* A job embedded under one model has just been re-embedded under another
\* model name, and its only row names the new model.
C8_Witness ==
    /\ lastOp.op = "upsert_embedding"
    /\ lastOp.pre_models = {"all-MiniLM-L6-v2"}
    /\ \E j \in lastOp.job_uuids :
          {e.model_name : e \in {x \in job_embeddings : x.job_uuid = j}} = {"other-model"}

----------------------------------------------------------------------------
(* The incremental crawl pipeline (run_incremental_crawl), one step per
   action.  A process begins a run, lists the visible identifiers, classifies
   them against one snapshot of the store, writes the added, maintained and
   removed identifiers, records the statuses and finishes the run. *)

\* The detail a successful fetch returns.
DetailPayloads == {p \in Payloads : p.description = "D1"}

\* Step 1: begin the run record.
RunBegin(p) ==
    /\ runs[p].pc = "idle"
    /\ runs[p].done_runs < MaxRuns
    /\ begin_run("incremental", "[]")
    /\ runs' = [runs EXCEPT ![p].pc = "listing", ![p].run_id = strftime(_utcnow)]

\* Step 1 when begin_run raises: the run is abandoned.
RunBeginFails(p) ==
    /\ runs[p].pc = "idle"
    /\ runs[p].done_runs < MaxRuns
    /\ begin_run_conflict("incremental", "[]")
    /\ runs' = [runs EXCEPT ![p].pc = "failed"]

\* Step 2: the listing phase returns a set of identifiers; it takes time.
RunList(p) ==
    /\ runs[p].pc = "listing"
    /\ \E L \in SUBSET JobIds :
          runs' = [runs EXCEPT ![p].pc = "classify", ![p].listed = L]
    /\ clock' = NextMicro(clock)
    /\ lastOp' = [op |-> "list"]
    /\ UNCHANGED <<crawl_runs, jobs, job_run_status, job_embeddings, lastEmbedded>>

\* Step 3: partition against existing_job_uuids() and active_job_uuids().
Added(listed) == listed \ existing_job_uuids
Maintained(listed) == listed \cap existing_job_uuids
Removed(listed) == active_job_uuids \ listed

RunClassify(p) ==
    /\ runs[p].pc = "classify"
    /\ runs' = [runs EXCEPT ![p].pc = "fetch",
                            ![p].added = Added(runs[p].listed),
                            ![p].maintained = Maintained(runs[p].listed),
                            ![p].removed = Removed(runs[p].listed),
                            ![p].todo = Added(runs[p].listed),
                            ![p].failed = {}]
    /\ lastOp' = [op |-> "classify"]
    /\ UNCHANGED <<clock, crawl_runs, jobs, job_run_status, job_embeddings, lastEmbedded>>

\* Step 4a: one added identifier's detail is fetched and upserted.
RunFetchUpsert(p) ==
    /\ runs[p].pc = "fetch"
    /\ runs[p].todo # {}
    /\ LET j == CHOOSE u \in runs[p].todo : TRUE IN
          /\ \E d \in DetailPayloads : upsert_new_job_detail(runs[p].run_id, j, d)
          /\ runs' = [runs EXCEPT ![p].todo = @ \ {j}]

\* Step 4a when the detail fetch fails: there is no detail to upsert, the
\* failure is reported for the identifier and the run goes on.  Whether the
\* identifier still counts among the added ones of the run is left open.
RunFetchFails(p) ==
    /\ runs[p].pc = "fetch"
    /\ runs[p].todo # {}
    /\ LET j == CHOOSE u \in runs[p].todo : TRUE IN
          \E counted \in BOOLEAN :
              runs' = [runs EXCEPT ![p].todo = @ \ {j}, ![p].failed = @ \cup {j},
                                   ![p].added = IF counted THEN @ ELSE @ \ {j}]
    /\ lastOp' = [op |-> "fetch_failed"]
    /\ UNCHANGED <<clock, crawl_runs, jobs, job_run_status, job_embeddings, lastEmbedded>>

\* Step 4b: touch the maintained identifiers.
RunTouch(p) ==
    /\ runs[p].pc = "fetch"
    /\ runs[p].todo = {}
    /\ touch_jobs(runs[p].run_id, runs[p].maintained)
    /\ runs' = [runs EXCEPT ![p].pc = "deactivate"]

\* Step 4c: deactivate the removed identifiers.
RunDeactivate(p) ==
    /\ runs[p].pc = "deactivate"
    /\ deactivate_jobs(runs[p].run_id, runs[p].removed)
    /\ runs' = [runs EXCEPT ![p].pc = "record"]

\* Step 5: record the per-job statuses of the run.
RunRecord(p) ==
    /\ runs[p].pc = "record"
    /\ record_statuses(runs[p].run_id, runs[p].added, runs[p].maintained, runs[p].removed)
    /\ runs' = [runs EXCEPT ![p].pc = "finish"]

\* The summary the pipeline returns.
RunSummary(r) ==
    [valid |-> TRUE, listed |-> r.listed, added |-> r.added,
     maintained |-> r.maintained, removed |-> r.removed, failed |-> r.failed,
     total_seen |-> Cardinality(r.listed)]

\* Steps 6 and 7: finalize the run record and return the summary.
RunFinish(p) ==
    /\ runs[p].pc = "finish"
    /\ finish_run(runs[p].run_id,
                  <<Cardinality(runs[p].listed), Cardinality(runs[p].added),
                    Cardinality(runs[p].maintained), Cardinality(runs[p].removed)>>)
    /\ runs' = [runs EXCEPT ![p].pc = "idle",
                            ![p].done_runs = @ + 1,
                            ![p].prev = runs[p].last,
                            ![p].last = RunSummary(runs[p])]

(* SpecCrawl: one process running the pipeline MaxRuns times in succession. *)

CrawlBegin == RunBegin("A") /\ UNCHANGED <<cli, server>>
CrawlList == RunList("A") /\ UNCHANGED <<cli, server>>
CrawlClassify == RunClassify("A") /\ UNCHANGED <<cli, server>>
CrawlFetchUpsert == RunFetchUpsert("A") /\ UNCHANGED <<cli, server>>
CrawlFetchFails == RunFetchFails("A") /\ UNCHANGED <<cli, server>>
CrawlTouch == RunTouch("A") /\ UNCHANGED <<cli, server>>
CrawlDeactivate == RunDeactivate("A") /\ UNCHANGED <<cli, server>>
CrawlRecord == RunRecord("A") /\ UNCHANGED <<cli, server>>
CrawlFinish == RunFinish("A") /\ UNCHANGED <<cli, server>>

NextCrawl ==
    \/ CrawlBegin \/ CrawlList \/ CrawlClassify \/ CrawlFetchUpsert \/ CrawlFetchFails
    \/ CrawlTouch \/ CrawlDeactivate \/ CrawlRecord \/ CrawlFinish

SpecCrawl == Init /\ [][NextCrawl]_vars

\* C3: when a run classifies its listing, every listed identifier goes to
\* exactly one of added (not stored) and maintained (stored), added and
\* maintained are disjoint, and every active identifier that is not listed is
\* in removed.
C3_PartitionExhaustiveDisjoint ==
    [][\A p \in Procs :
        (runs[p].pc = "classify" /\ runs'[p].pc = "fetch") =>
            LET L == runs[p].listed
                r == runs'[p]
            IN  /\ r.added \cup r.maintained = L
                /\ r.added \cap r.maintained = {}
                /\ r.added = {j \in L : ~Stored(j)}
                /\ r.maintained = {j \in L : Stored(j)}
                /\ \A j \in JobIds :
                      (Stored(j) /\ JobRow(j).is_active /\ j \notin L) => j \in r.removed]_vars

\* A run has just classified a listing holding a stored inactive job and
\* lacking a stored active one.
C3_Witness ==
    \E p \in Procs :
        /\ runs[p].pc = "fetch" /\ lastOp.op = "classify"
        /\ \E j \in runs[p].maintained : ~JobRow(j).is_active
        /\ runs[p].removed # {}

\* C4 as stated: a run that lists what the run before it listed has nothing
\* added, nothing removed and maintains as many identifiers as the run
\* before it listed.
C4_SecondRunIdempotent ==
    \A p \in Procs :
        LET r == runs[p] IN
        (r.pc = "idle" /\ r.prev.valid /\ r.last.listed = r.prev.listed) =>
            /\ r.last.added = {}
            /\ Cardinality(r.last.maintained) = r.prev.total_seen
            /\ r.last.removed = {}

----------------------------------------------------------------------------
(* SpecConcurrent: two processes each running the pipeline once, at the same
   time, on a store that an earlier run (begun at StartClock, listing and
   adding "j1") has filled. *)

SeedRunId == strftime(StartClock)
SeedTime == NextMicro(StartClock)

InitSeeded ==
    /\ clock = SeedTime
    /\ crawl_runs =
          {FinishedRunRow(BegunRunRow(StartClock, "incremental", "[]"), SeedTime, <<1, 1, 0, 0>>)}
    /\ jobs = UpsertedJobs({}, SeedRunId, "j1", CHOOSE d \in DetailPayloads : TRUE, SeedTime)
    /\ job_run_status = StatusRows(SeedRunId, {"j1"}, {}, {})
    /\ job_embeddings = {}
    /\ lastEmbedded = {}
    /\ lastOp = [op |-> "finish_run", run_id |-> SeedRunId, counts |-> <<1, 1, 0, 0>>]
    /\ runs = [p \in Procs |-> IdleRun]
    /\ cli = IdleCli
    /\ server = ServerDown

ConcBegin == \E p \in Procs : runs[p].done_runs = 0 /\ RunBegin(p) /\ UNCHANGED <<cli, server>>
ConcBeginFails == \E p \in Procs : runs[p].done_runs = 0 /\ RunBeginFails(p) /\ UNCHANGED <<cli, server>>
ConcList == \E p \in Procs : RunList(p) /\ UNCHANGED <<cli, server>>
ConcClassify == \E p \in Procs : RunClassify(p) /\ UNCHANGED <<cli, server>>
ConcFetchUpsert == \E p \in Procs : RunFetchUpsert(p) /\ UNCHANGED <<cli, server>>
ConcFetchFails == \E p \in Procs : RunFetchFails(p) /\ UNCHANGED <<cli, server>>
ConcTouch == \E p \in Procs : RunTouch(p) /\ UNCHANGED <<cli, server>>
ConcDeactivate == \E p \in Procs : RunDeactivate(p) /\ UNCHANGED <<cli, server>>
ConcRecord == \E p \in Procs : RunRecord(p) /\ UNCHANGED <<cli, server>>
ConcFinish == \E p \in Procs : RunFinish(p) /\ UNCHANGED <<cli, server>>

NextConcurrent ==
    \/ ConcBegin \/ ConcBeginFails \/ ConcList \/ ConcClassify \/ ConcFetchUpsert
    \/ ConcFetchFails \/ ConcTouch \/ ConcDeactivate \/ ConcRecord \/ ConcFinish

SpecConcurrent == InitSeeded /\ [][NextConcurrent]_vars

\* The status row of the greatest run identifier among the rows of job j.
LatestStatus(j) ==
    LET rows == {s \in job_run_status : s.job_uuid = j} IN
    CHOOSE s \in rows : \A q \in rows : q = s \/ SeqLess(q.run_id, s.run_id)

\* C5: once both runs are over, a stored job that some run classified is
\* active if the run with the greatest identifier among those that classified
\* it recorded it as added or maintained, and inactive if that run recorded it
\* as removed.
C5_ActiveIffLatestRunTouched ==
    (\A p \in Procs : runs[p].pc = "failed" \/ (runs[p].pc = "idle" /\ runs[p].done_runs = 1)) =>
        \A j \in existing_job_uuids :
            (\E s \in job_run_status : s.job_uuid = j) =>
                (JobRow(j).is_active <=> LatestStatus(j).status \in {"added", "maintained"})

----------------------------------------------------------------------------
(* The command-line program (src/src/mcf/cli/cli.py).  One command runs at a
   time against the store; the store calls that fill the jobs table are made
   between commands.  The embedding model and the resume extractor are black
   boxes mapping a text to a vector and a file to a text. *)

\* The texts extract_resume_text yields, as sequences of character codes:
\* "", " \xa0\n" (space, no-break space, newline), " py" and "sql".
ResumeTexts == {<<>>, <<32, 160, 10>>, <<32, 112, 121>>, <<115, 113, 108>>}
TopInputs == {-1, 1, 2}
\* The code points str.strip() removes: those for which str.isspace() is true.
Whitespace ==
    (9..13) \cup (28..32) \cup {133, 160, 5760} \cup (8192..8202)
        \cup {8232, 8233, 8239, 8287, 12288}
\* The help of the mcf application as rich renders it.
HelpText == "Usage: mcf [OPTIONS] COMMAND [ARGS]..."

\* str.strip(): the text without its leading and trailing whitespace.
StripNothing(t) == t

RECURSIVE LStrip(_)
LStrip(t) == IF t # <<>> /\ Head(t) \in Whitespace THEN LStrip(Tail(t)) ELSE t
RECURSIVE RStrip(_)
RStrip(t) ==
    IF t # <<>> /\ t[Len(t)] \in Whitespace THEN RStrip(SubSeq(t, 1, Len(t) - 1)) ELSE t
strip(t) == RStrip(LStrip(t))

\* The embedding model: a fixed length per model name, one vector per text.
ModelDim(model_name) == IF model_name = "all-MiniLM-L6-v2" THEN MaxDim ELSE 1
ModelVector(model_name, s) == [i \in 1..ModelDim(model_name) |-> IF i = 1 THEN s ELSE 10]
embed_text(model_name, text) ==
    ModelVector(model_name, IF text = <<32, 112, 121>> THEN 10 ELSE -5)
embed_texts(model_name, texts) ==
    [i \in 1..Len(texts) |-> ModelVector(model_name, IF texts[i] = "D1" THEN 10 ELSE -5)]

\* The orders in which a query without ORDER BY can return the rows S.
Orderings(S) ==
    {o \in [1..Cardinality(S) -> S] : \A i, k \in 1..Cardinality(S) : o[i] = o[k] => i = k}

\* ctx.get_help() of an application with rich_markup_mode="rich": the help is
\* printed on standard output while it is formatted, and the string
\* returned, the content of the unused text formatter, is empty.
get_help == [stdout |-> HelpText, value |-> ""]

\* sys.exit(code): status 0 for None, the integer for an integer; any other
\* object is printed to stderr, followed by a newline, and the status is 1.
SysExit(code) ==
    IF code.kind = "none" THEN [status |-> 0, stderr |-> ""]
    ELSE IF code.kind = "int" THEN [status |-> code.value, stderr |-> ""]
    ELSE [status |-> 1, stderr |-> code.value \o "\n"]

\* callback with ctx.invoked_subcommand None: raise typer.Exit(ctx.get_help()),
\* whose argument becomes the exit code handed to sys.exit.
callback ==
    /\ cli.pc \in {"idle", "exited"}
    /\ LET help == get_help
           out == SysExit([kind |-> "str", value |-> help.value]) IN
       cli' = [IdleCli EXCEPT !.cmd = "help", !.pc = "exited", !.exit = "exit",
                              !.stdout = help.stdout,
                              !.status = out.status, !.stderr = out.stderr]
    /\ UNCHANGED <<clock, crawl_runs, jobs, job_run_status, job_embeddings, lastEmbedded,
                   lastOp, runs, server>>

\* The store handle after the finally clause: store.close().
StoreClosed(c) == [c EXCEPT !.store = "closed"]

\* embed-jobs: store = DuckDBStore(db).
embed_jobs_open ==
    /\ cli.pc \in {"idle", "exited"}
    /\ \E m \in ModelNames, l \in LimitInputs :
          cli' = [IdleCli EXCEPT !.cmd = "embed-jobs", !.pc = "query", !.model = m,
                                 !.limit = l, !.store = "open"]
    /\ UNCHANGED <<clock, crawl_runs, jobs, job_run_status, job_embeddings, lastEmbedded,
                   lastOp, runs, server>>

\* missing = store.jobs_missing_embeddings(limit=limit); if not missing: return.
embed_jobs_query ==
    /\ cli.cmd = "embed-jobs" /\ cli.pc = "query"
    /\ \E R \in jobs_missing_embeddings(cli.limit) : \E o \in Orderings(R) :
          cli' = IF o = <<>>
                 THEN StoreClosed([cli EXCEPT !.pc = "exited", !.exit = "noop"])
                 ELSE [cli EXCEPT !.pc = "embed", !.missing = o]
    /\ UNCHANGED <<clock, crawl_runs, jobs, job_run_status, job_embeddings, lastEmbedded,
                   lastOp, runs, server>>

\* embedder = Embedder(...); vectors = embedder.embed_texts([desc or "" ...]).
embed_jobs_embed ==
    /\ cli.cmd = "embed-jobs" /\ cli.pc = "embed"
    /\ cli' = [cli EXCEPT !.pc = "write", !.embedders = @ + 1,
                  !.vectors = embed_texts(cli.model,
                                 [i \in 1..Len(cli.missing) |->
                                     IF cli.missing[i][2] = NULL THEN "" ELSE cli.missing[i][2]])]
    /\ UNCHANGED <<clock, crawl_runs, jobs, job_run_status, job_embeddings, lastEmbedded,
                   lastOp, runs, server>>

\* zip(missing, vectors, strict=True): the i-th job with the i-th vector.
ZipCrossed(missing, vectors) ==
    [i \in 1..Len(missing) |-> <<missing[i][1], vectors[Len(missing) + 1 - i]>>]

Zip(missing, vectors) == [i \in 1..Len(missing) |-> <<missing[i][1], vectors[i]>>]

\* One round of the loop over zip(missing, vectors, strict=True).
embed_jobs_write ==
    /\ cli.cmd = "embed-jobs" /\ cli.pc = "write"
    /\ Len(cli.written) < Len(cli.missing)
    /\ LET pair == Zip(cli.missing, cli.vectors)[Len(cli.written) + 1] IN
          /\ upsert_embedding(pair[1], cli.model, pair[2])
          /\ cli' = [cli EXCEPT !.written = Append(@, pair)]
    /\ UNCHANGED <<runs, server>>

\* The loop is over; the summary is printed and the finally clause runs.
embed_jobs_done ==
    /\ cli.cmd = "embed-jobs" /\ cli.pc = "write"
    /\ Len(cli.written) = Len(cli.missing)
    /\ cli' = StoreClosed([cli EXCEPT !.pc = "exited", !.exit = "ok"])
    /\ UNCHANGED <<clock, crawl_runs, jobs, job_run_status, job_embeddings, lastEmbedded,
                   lastOp, runs, server>>

\* A statement of the try block raises (the database or the model fails): the
\* finally clause runs and the command exits with status 1.
embed_jobs_raises ==
    /\ cli.cmd = "embed-jobs" /\ cli.pc \in {"query", "embed", "write"}
    /\ cli' = StoreClosed([cli EXCEPT !.pc = "exited", !.exit = "error", !.status = 1])
    /\ UNCHANGED <<clock, crawl_runs, jobs, job_run_status, job_embeddings, lastEmbedded,
                   lastOp, runs, server>>

\* match-resume, up to the embedding of the resume: the extracted text is
\* rejected when text.strip() is empty (typer.BadParameter, status 2);
\* otherwise the embedder is constructed and embeds the text.
match_resume_validate ==
    /\ cli.pc \in {"idle", "exited"}
    /\ \E t \in ResumeTexts, m \in ModelNames, n \in TopInputs :
          cli' = IF strip(t) = <<>>
                 THEN [IdleCli EXCEPT !.cmd = "match-resume", !.pc = "exited", !.model = m,
                                      !.top = n, !.text = t, !.exit = "bad_parameter",
                                      !.status = 2]
                 ELSE [IdleCli EXCEPT !.cmd = "match-resume", !.pc = "open", !.model = m,
                                      !.top = n, !.text = t, !.embedders = 1,
                                      !.resume_vec = embed_text(m, t)]
    /\ UNCHANGED <<clock, crawl_runs, jobs, job_run_status, job_embeddings, lastEmbedded,
                   lastOp, runs, server>>

\* store = DuckDBStore(db).
match_resume_open ==
    /\ cli.cmd = "match-resume" /\ cli.pc = "open"
    /\ cli' = [cli EXCEPT !.pc = "load", !.store = "open"]
    /\ UNCHANGED <<clock, crawl_runs, jobs, job_run_status, job_embeddings, lastEmbedded,
                   lastOp, runs, server>>

\* float(np.dot(rv, jv)), in hundredths.
RECURSIVE Dot(_, _)
Dot(a, b) == IF a = <<>> THEN 0 ELSE Head(a) * Head(b) + Dot(Tail(a), Tail(b))

\* scored: one (score, job_uuid, title) per (job_uuid, title, emb) of jobs.
Scored(rv, rows) == [i \in 1..Len(rows) |-> <<Dot(rv, rows[i][3]), rows[i][1], rows[i][2]>>]

\* scored.sort(reverse=True, key=lambda x: x[0]): a stable sort, so equal
\* scores keep the order they had.
InsertAscending(x, sorted) ==
    LET before == {i \in 1..Len(sorted) : sorted[i][1] <= x[1]} IN
    SubSeq(sorted, 1, Cardinality(before)) \o <<x>>
        \o SubSeq(sorted, Cardinality(before) + 1, Len(sorted))

InsertDescending(x, sorted) ==
    LET before == {i \in 1..Len(sorted) : sorted[i][1] >= x[1]} IN
    SubSeq(sorted, 1, Cardinality(before)) \o <<x>>
        \o SubSeq(sorted, Cardinality(before) + 1, Len(sorted))

RECURSIVE SortedDescending(_)
SortedDescending(scored) ==
    IF scored = <<>> THEN <<>>
    ELSE InsertDescending(scored[Len(scored)],
                          SortedDescending(SubSeq(scored, 1, Len(scored) - 1)))

\* scored[: max(1, int(top))]
Truncated(scored, top) ==
    LET n == IF top > 1 THEN top ELSE 1 IN
    SubSeq(scored, 1, IF n < Len(scored) THEN n ELSE Len(scored))

\* The body of the try block: load the embeddings of the active jobs; report
\* and return when there are none; score, sort, truncate and print.  np.dot
\* raises ValueError on vectors of different lengths.  The finally clause
\* closes the store on every way out.
match_resume_rank ==
    /\ cli.cmd = "match-resume" /\ cli.pc = "load"
    /\ \E o \in Orderings(get_active_job_embeddings) :
          cli' = IF o = <<>>
                 THEN StoreClosed([cli EXCEPT !.pc = "exited", !.exit = "empty"])
                 ELSE IF \E i \in 1..Len(o) : Len(o[i][3]) # Len(cli.resume_vec)
                 THEN StoreClosed([cli EXCEPT !.pc = "exited", !.rows = o, !.exit = "error",
                                              !.status = 1])
                 ELSE StoreClosed([cli EXCEPT !.pc = "exited", !.rows = o, !.exit = "ok",
                          !.printed = Truncated(SortedDescending(Scored(cli.resume_vec, o)),
                                                cli.top)])
    /\ UNCHANGED <<clock, crawl_runs, jobs, job_run_status, job_embeddings, lastEmbedded,
                   lastOp, runs, server>>

\* The query raises (the database fails): the finally clause runs.
match_resume_raises ==
    /\ cli.cmd = "match-resume" /\ cli.pc = "load"
    /\ cli' = StoreClosed([cli EXCEPT !.pc = "exited", !.exit = "error", !.status = 1])
    /\ UNCHANGED <<clock, crawl_runs, jobs, job_run_status, job_embeddings, lastEmbedded,
                   lastOp, runs, server>>

----------------------------------------------------------------------------
(* SpecCli: embed-jobs and the bare program.  The jobs table is filled by
   store calls made while no command is running; a command that has exited
   leaves nothing behind but the store. *)

DescribedPayloads == {p \in Payloads : p.description # NULL}

CliAtRest == cli.pc \in {"idle", "exited"}
CliBeginRun ==
    /\ CliAtRest
    /\ begin_run("incremental", "[]")
    /\ cli' = IdleCli /\ UNCHANGED <<runs, server>>
CliUpsert ==
    /\ CliAtRest
    /\ \E r \in CurRun, j \in JobIds, p \in DescribedPayloads : upsert_new_job_detail(r, j, p)
    /\ cli' = IdleCli /\ UNCHANGED <<runs, server>>
CliDeactivate ==
    /\ CliAtRest
    /\ \E r \in CurRun, j \in JobIds : deactivate_jobs(r, {j})
    /\ cli' = IdleCli /\ UNCHANGED <<runs, server>>

NextCli ==
    \/ CliBeginRun \/ CliUpsert \/ CliDeactivate
    \/ callback
    \/ embed_jobs_open \/ embed_jobs_query \/ embed_jobs_embed \/ embed_jobs_write
    \/ embed_jobs_done \/ embed_jobs_raises

SpecCli == Init /\ [][NextCli]_vars

----------------------------------------------------------------------------
(* SpecMatch: match-resume over a store whose jobs and embeddings were
   written by store calls made while no command is running. *)

MatchUpsert ==
    /\ CliAtRest
    /\ \E r \in CurRun, j \in JobIds, p \in DetailPayloads : upsert_new_job_detail(r, j, p)
    /\ cli' = IdleCli /\ UNCHANGED <<runs, server>>
MatchEmbed ==
    /\ CliAtRest
    /\ \E j \in JobIds, m \in ModelNames, s \in Scalars :
          upsert_embedding(j, m, ModelVector(m, s))
    /\ cli' = IdleCli /\ UNCHANGED <<runs, server>>

NextMatch ==
    \/ CliBeginRun \/ MatchUpsert \/ CliDeactivate \/ MatchEmbed
    \/ match_resume_validate \/ match_resume_open \/ match_resume_rank \/ match_resume_raises

SpecMatch == Init /\ [][NextMatch]_vars

----------------------------------------------------------------------------
(* The HTTP query service (src/src/mcf/api/server.py).  Its store is the
   networked one, holding the same tables; a request can arrive in any phase
   before shutdown.  The tables are filled by store calls of a crawl process,
   and a response is gone once it is sent. *)

DatabaseUrls == {"", "postgresql://db/mcf"}
PageLimits == {1, 100}
StatsLimits == {1, 10}
PageOffsets == {0, 1}
KeywordInputs == {NULL, "T1"}
StoreReaders == {"list_jobs", "get_job", "get_crawl_stats"}

\* lifespan up to the yield: the connection string is required, then the
\* store is constructed (which can fail) and kept in _store.
lifespan_startup ==
    /\ server.phase = "down"
    /\ \E url \in DatabaseUrls :
          IF url = ""
          THEN server' = [server EXCEPT !.phase = "failed", !.database_url = url]
          ELSE \/ server' = [server EXCEPT !.phase = "up", !.database_url = url,
                                 !._store = "store", !.store = "open",
                                 !.stores_created = @ + 1]
               \/ server' = [server EXCEPT !.phase = "failed", !.database_url = url]
    /\ UNCHANGED <<clock, crawl_runs, jobs, job_run_status, job_embeddings, lastEmbedded,
                   lastOp, runs, cli>>

\* lifespan resumed after the yield at shutdown: if _store: _store.close().
lifespan_shutdown ==
    /\ server.phase = "up"
    /\ server' = [server EXCEPT !.phase = "stopped",
                     !.store = IF server._store # "None" THEN "closed" ELSE @]
    /\ UNCHANGED <<clock, crawl_runs, jobs, job_run_status, job_embeddings, lastEmbedded,
                   lastOp, runs, cli>>

\* An exception is thrown into lifespan at the yield (the serving phase
\* failed or was cancelled): no statement after the yield runs.
lifespan_aborted ==
    /\ server.phase = "up"
    /\ server' = [server EXCEPT !.phase = "aborted"]
    /\ UNCHANGED <<clock, crawl_runs, jobs, job_run_status, job_embeddings, lastEmbedded,
                   lastOp, runs, cli>>

\* get_store(): RuntimeError when _store is None, else the store.
get_store_unguarded == TRUE

get_store == server._store # "None"

ServerError(endpoint) ==
    [endpoint |-> endpoint, status |-> 500, detail |-> "Store not initialized",
     used_store |-> FALSE]

\* store.get_job(job_uuid): <<the job record>>, or <<>> for None.
StoreGetJob(job_uuid) == IF Stored(job_uuid) THEN <<JobRow(job_uuid)>> ELSE <<>>

\* The status of GET /api/jobs/{job_uuid} given what the store returned.
GetJobStatusAlwaysOk(job) == 200

GetJobStatus(job) == IF job = <<>> THEN 404 ELSE 200

\* The jobs matching the filter of store.search_jobs.
Matching(keywords) == {r \in jobs : keywords = NULL \/ r.title = keywords}

\* store.search_jobs(limit, offset, ...): a page of the matching jobs.
search_jobs(limit, offset, keywords) ==
    {SubSeq(o, offset + 1, IF offset + limit < Len(o) THEN offset + limit ELSE Len(o)) :
        o \in Orderings(Matching(keywords))}

\* A request is handled; the response remembers the phase it was handled in.
\* Requests are followed one at a time: the handlers only read the store, so
\* it is the crawl's writes that matter between the steps of one of them.
Respond(r) ==
    /\ server.phase \in {"down", "failed", "up"}
    /\ server.pending = <<>>
    /\ server' = [server EXCEPT !.response = r @@ [phase |-> server.phase]]
    /\ UNCHANGED <<clock, crawl_runs, jobs, job_run_status, job_embeddings, lastEmbedded,
                   lastOp, runs, cli>>

\* GET /api/jobs
list_jobs ==
    \E limit \in PageLimits, offset \in PageOffsets, keywords \in KeywordInputs :
        IF get_store
        THEN \E page \in search_jobs(limit, offset, keywords) :
                Respond([endpoint |-> "list_jobs", status |-> 200, detail |-> "",
                         used_store |-> TRUE, limit |-> limit, offset |-> offset,
                         keywords |-> keywords,
                         jobs |-> [i \in 1..Len(page) |-> page[i].job_uuid],
                         total |-> Len(page)])
        ELSE Respond(ServerError("list_jobs"))

\* GET /api/jobs/{job_uuid}
get_job ==
    \E job_uuid \in JobIds :
        IF get_store
        THEN LET job == StoreGetJob(job_uuid) IN
             Respond([endpoint |-> "get_job", status |-> GetJobStatus(job),
                      detail |-> IF job = <<>> THEN "Job not found" ELSE "",
                      used_store |-> TRUE, job_uuid |-> job_uuid])
        ELSE Respond(ServerError("get_job") @@ [job_uuid |-> job_uuid])

\* store.get_recent_runs(limit): the limit most recent runs, latest first.
get_recent_runs(limit) ==
    LET latest_first == CHOOSE o \in Orderings(RunIds) :
                            \A i, k \in 1..Len(o) : i < k => SeqLess(o[k], o[i])
    IN  SubSeq(latest_first, 1, IF limit < Len(latest_first) THEN limit ELSE Len(latest_first))

\* GET /api/crawl/stats, up to runs = store.get_recent_runs(limit=limit): the
\* handler holds the runs while it goes on to count.
get_crawl_stats_recent_runs ==
    /\ server.pending = <<>>
    /\ \E limit \in StatsLimits :
          IF get_store
          THEN /\ server.phase \in {"down", "failed", "up"}
               /\ server' = [server EXCEPT
                                !.pending = <<[limit |-> limit,
                                               recent_runs |-> get_recent_runs(limit)]>>,
                                !.response = NoResponse]
               /\ UNCHANGED <<clock, crawl_runs, jobs, job_run_status, job_embeddings,
                              lastEmbedded, lastOp, runs, cli>>
          ELSE Respond(ServerError("get_crawl_stats"))

\* GET /api/crawl/stats, from active_count = store.get_active_job_count() to
\* the response; the store may have been written to since the runs were read.
get_crawl_stats_respond ==
    /\ server.pending # <<>>
    /\ server.phase \in {"down", "failed", "up"}
    /\ server' = [server EXCEPT
                     !.pending = <<>>,
                     !.response = [endpoint |-> "get_crawl_stats", status |-> 200,
                                   detail |-> "", used_store |-> TRUE,
                                   limit |-> server.pending[1].limit,
                                   active_job_count |-> Cardinality(active_job_uuids),
                                   recent_runs |-> server.pending[1].recent_runs,
                                   phase |-> server.phase]]
    /\ UNCHANGED <<clock, crawl_runs, jobs, job_run_status, job_embeddings, lastEmbedded,
                   lastOp, runs, cli>>

get_crawl_stats == get_crawl_stats_recent_runs \/ get_crawl_stats_respond

\* GET /api/health
health ==
    Respond([endpoint |-> "health", status |-> 200, detail |-> "ok", used_store |-> FALSE])

ServerBeginRun ==
    /\ begin_run("incremental", "[]")
    /\ server' = [server EXCEPT !.response = NoResponse] /\ UNCHANGED <<runs, cli>>
ServerUpsert ==
    /\ \E r \in CurRun, j \in JobIds, p \in DetailPayloads : upsert_new_job_detail(r, j, p)
    /\ server' = [server EXCEPT !.response = NoResponse] /\ UNCHANGED <<runs, cli>>
ServerDeactivate ==
    /\ \E r \in CurRun, j \in JobIds : deactivate_jobs(r, {j})
    /\ server' = [server EXCEPT !.response = NoResponse] /\ UNCHANGED <<runs, cli>>

NextServer ==
    \/ Tick
    \/ ServerBeginRun \/ ServerUpsert \/ ServerDeactivate
    \/ lifespan_startup \/ lifespan_shutdown \/ lifespan_aborted
    \/ list_jobs \/ get_job \/ get_crawl_stats \/ health

SpecServer == Init /\ [][NextServer]_vars

----------------------------------------------------------------------------
(* Claims on the command-line program *)

\* The active jobs that have an embedding row, and the vector last written
\* for a job.
ActiveEmbedded == {j \in active_job_uuids : HasEmbedding(j)}
WrittenVector(j) == (CHOOSE g \in lastEmbedded : g.job_uuid = j).embedding

\* C11: when match-resume prints its ranking (or reports that there are no
\* embeddings), the printed list has min(max(1, top), number of active
\* embedded jobs) entries, each the dot product, identifier and title of a
\* distinct active embedded job, in non-increasing score order, and no
\* omitted job has a higher score than a printed one.
C11_RankedByScoreDescending ==
    (cli.cmd = "match-resume" /\ cli.pc = "exited" /\ cli.exit \in {"ok", "empty"}) =>
        LET n == Cardinality(ActiveEmbedded)
            want == IF cli.top > 1 THEN cli.top ELSE 1
            printed == cli.printed
        IN  /\ Len(printed) = (IF want < n THEN want ELSE n)
            /\ \A i \in 1..Len(printed) :
                  /\ printed[i][2] \in ActiveEmbedded
                  /\ printed[i][1] = Dot(cli.resume_vec, WrittenVector(printed[i][2]))
                  /\ \A k \in 1..Len(printed) : i < k => printed[i][1] >= printed[k][1]
                  /\ \A k \in 1..Len(printed) : printed[i][2] = printed[k][2] => i = k
            /\ \A j \in ActiveEmbedded :
                  (\A i \in 1..Len(printed) : printed[i][2] # j) =>
                      \A i \in 1..Len(printed) :
                          Dot(cli.resume_vec, WrittenVector(j)) <= printed[i][1]

\* Two active embedded jobs of different scores, loaded lower score first,
\* and a ranking truncated to the better one.
C11_Witness ==
    /\ cli.cmd = "match-resume" /\ cli.exit = "ok" /\ cli.top = 1
    /\ Len(cli.rows) = 2 /\ Len(cli.printed) = 1
    /\ cli.printed[1][2] = cli.rows[2][1]
    /\ Dot(cli.resume_vec, cli.rows[1][3]) < Dot(cli.resume_vec, cli.rows[2][3])

\* C15: embed-jobs constructs no embedder before it knows that something is
\* missing; when nothing is missing it exits having constructed none and
\* written nothing; when it ends normally it has issued exactly one
\* upsert_embedding per returned job, the i-th job with the i-th vector.
C15_EmbedJobsNoOpAndPairing ==
    cli.cmd = "embed-jobs" =>
        /\ cli.pc \in {"query", "embed"} => (cli.embedders = 0 /\ cli.written = <<>>)
        /\ cli.exit = "noop" =>
              (cli.missing = <<>> /\ cli.embedders = 0 /\ cli.written = <<>>)
        /\ cli.exit = "ok" =>
              /\ cli.embedders = 1
              /\ Len(cli.missing) > 0
              /\ Len(cli.written) = Len(cli.missing)
              /\ \A i \in 1..Len(cli.missing) :
                    /\ cli.written[i] = <<cli.missing[i][1], cli.vectors[i]>>
                    /\ WrittenVector(cli.missing[i][1]) = cli.vectors[i]

\* embed-jobs has embedded two jobs whose descriptions embed differently.
C15_Witness ==
    /\ cli.cmd = "embed-jobs" /\ cli.exit = "ok"
    /\ Len(cli.missing) = 2 /\ Len(cli.written) = 2
    /\ cli.vectors[1] # cli.vectors[2]

\* C16: a match-resume whose resume extracts to empty or all-whitespace text
\* has failed with a user-facing error (non-zero status) without constructing
\* an embedder and without opening a store.
C16_ValidationPrecedesWork ==
    (cli.cmd = "match-resume" /\ \A i \in 1..Len(cli.text) : cli.text[i] \in Whitespace) =>
        /\ cli.pc = "exited" /\ cli.exit = "bad_parameter" /\ cli.status # 0
        /\ cli.embedders = 0
        /\ cli.store = "unopened"

\* match-resume has rejected a resume of a space, a no-break space and a
\* newline.
C16_Witness ==
    /\ cli.cmd = "match-resume" /\ cli.text = <<32, 160, 10>>
    /\ cli.exit = "bad_parameter" /\ cli.store = "unopened"

\* C17: the program invoked with no subcommand has printed the help text and
\* exited with status zero.
C17_NoSubcommandHelpExitZero ==
    cli.cmd = "help" => (cli.stdout = HelpText /\ cli.status = 0)

\* C19: every triple match-resume got from get_active_job_embeddings belongs
\* to a job that is active and whose embedding row carries the model name the
\* command was run with.
C19_ActiveEmbeddingsOfModelInUse ==
    (cli.cmd = "match-resume" /\ cli.pc = "exited") =>
        \A i \in 1..Len(cli.rows) :
            /\ cli.rows[i][1] \in active_job_uuids
            /\ \E e \in job_embeddings :
                  e.job_uuid = cli.rows[i][1] /\ e.model_name = cli.model

----------------------------------------------------------------------------
(* Claims on the HTTP query service *)

\* C12 as stated: in whatever phase the request is handled, GET
\* /api/jobs/{job_uuid} for an identifier absent from storage is answered 404.
C12_NotFoundInEveryState ==
    (server.response.endpoint = "get_job" /\ ~Stored(server.response.job_uuid)) =>
        server.response.status = 404

\* C12 amended: once startup has completed, GET /api/jobs/{job_uuid} for an
\* identifier absent from storage is answered 404, never a server error.
C12_NotFoundOnceStarted ==
    (/\ server.response.endpoint = "get_job"
     /\ server.response.phase = "up"
     /\ ~Stored(server.response.job_uuid)) =>
        (server.response.status = 404 /\ server.response.detail = "Job not found")

\* The started service answered 404 for an absent identifier while another
\* job is stored.
C12_Witness ==
    /\ server.response.endpoint = "get_job" /\ server.response.phase = "up"
    /\ ~Stored(server.response.job_uuid) /\ jobs # {}
    /\ server.response.status = 404

\* The startup part of C13: with an empty connection string the service has
\* failed without creating a store or serving a request from one, and a store
\* is created exactly once by a startup that succeeds, never otherwise; no
\* crawl-stats request has read runs from a store while there is none.
StartupContract ==
    /\ (server.phase # "down" /\ server.database_url = "") =>
          /\ server.phase = "failed" /\ server.stores_created = 0
          /\ server._store = "None"
          /\ server.response.used_store = FALSE
    /\ server.stores_created = (IF server.phase \in {"up", "stopped", "aborted"} THEN 1 ELSE 0)
    /\ server.phase \in {"down", "failed"} => server.pending = <<>>

\* C13 as stated: the startup contract, and every request handled before
\* startup completes or after the store failed to initialize fails with the
\* internal configuration error instead of using a store.
C13_StartupEveryRequestFails ==
    /\ StartupContract
    /\ (server.response.endpoint # "none" /\ server.response.phase \in {"down", "failed"}) =>
          /\ server.response.status = 500
          /\ server.response.detail = "Store not initialized"
          /\ server.response.used_store = FALSE

\* C13 amended: the startup contract, and every request to an endpoint that
\* reads storage, handled before startup completes or after the store failed
\* to initialize, fails with the internal configuration error instead of
\* using a store; no request handled then uses a store.
C13_StartupStoreRequestsFail ==
    /\ StartupContract
    /\ (server.response.endpoint # "none" /\ server.response.phase \in {"down", "failed"}) =>
          /\ server.response.used_store = FALSE
          /\ server.response.endpoint \in StoreReaders =>
                /\ server.response.status = 500
                /\ server.response.detail = "Store not initialized"

\* Startup failed on an empty connection string, and a request for a stored
\* job handled afterwards was refused.
C13_Witness ==
    /\ server.phase = "failed" /\ server.database_url = ""
    /\ server.response.endpoint = "get_job" /\ server.response.phase = "failed"
    /\ Stored(server.response.job_uuid)
    /\ server.response.status = 500

\* C14: a command that has exited, and a service whose lifespan is over, has
\* no store left open.
C14_StoresReleasedOnExit ==
    /\ cli.pc = "exited" => cli.store # "open"
    /\ server.phase \in {"failed", "stopped", "aborted"} => server.store # "open"

\* C18: the total returned by GET /api/jobs is the number of jobs matching the
\* filter, whatever the page.
C18_TotalCountsAllMatches ==
    (server.response.endpoint = "list_jobs" /\ server.response.status = 200) =>
        server.response.total = Cardinality(Matching(server.response.keywords))

----------------------------------------------------------------------------
(* SpecJobs: the jobs-table calls of the store with one detail payload, so
   that several runs fit; SpecStatus: record_statuses for any begun run. *)

JobsUpsert ==
    \E r \in CurRun, j \in JobIds, p \in DetailPayloads :
        upsert_new_job_detail(r, j, p) /\ UNCHANGED <<runs, cli, server>>

NextJobs == Tick \/ BeginRunCall \/ JobsUpsert \/ TouchCall \/ DeactivateCall

SpecJobs == Init /\ [][NextJobs]_vars

\* The added, maintained and removed collections record_statuses is called
\* with; the pipeline passes disjoint ones, the store accepts any.
StatusInputs ==
    { <<{}, {}, {}>>, <<{"j1"}, {}, {}>>, <<{"j2"}, {"j1"}, {}>>,
      <<{}, {"j2"}, {"j1"}>>, <<{"j1"}, {"j1"}, {}>>, <<{"j1", "j2"}, {}, {"j2"}>> }

RecordStatusesCall ==
    \E r \in RunIds, i \in StatusInputs :
        record_statuses(r, i[1], i[2], i[3]) /\ UNCHANGED <<runs, cli, server>>

NextStatus == Tick \/ BeginRunCall \/ RecordStatusesCall

SpecStatus == Init /\ [][NextStatus]_vars

----------------------------------------------------------------------------
(* Frame claims on the store *)

\* C20: a touch_jobs call leaves crawl_runs, job_run_status and
\* job_embeddings unchanged, adds and removes no job, leaves every job it was
\* not given unchanged, and of a job it was given changes nothing but
\* last_seen_run_id, last_seen_at and is_active, which becomes true.
C20_TouchFrame ==
    [][lastOp'.op = "touch_jobs" =>
        /\ crawl_runs' = crawl_runs
        /\ job_run_status' = job_run_status
        /\ job_embeddings' = job_embeddings
        /\ Cardinality(jobs') = Cardinality(jobs)
        /\ \A r \in jobs : \E n \in jobs' :
              /\ n.job_uuid = r.job_uuid
              /\ IF r.job_uuid \in lastOp'.job_uuids
                 THEN n = [r EXCEPT !.last_seen_run_id = n.last_seen_run_id,
                                    !.last_seen_at = n.last_seen_at,
                                    !.is_active = TRUE]
                 ELSE n = r]_vars

\* touch_jobs was given j1 only, at a later time than j1 was first seen,
\* while j1 and j2 were both stored and inactive.
C20_Witness ==
    /\ lastOp.op = "touch_jobs" /\ lastOp.job_uuids = {"j1"}
    /\ Stored("j1") /\ Stored("j2") /\ lastOp.pre_active = {}
    /\ JobRow("j1").is_active /\ ~JobRow("j2").is_active
    /\ JobRow("j1").last_seen_at # JobRow("j1").first_seen_at

\* C21: no step removes an identifier from existing_job_uuids();
\* active_job_uuids() is a subset of it; and a deactivate_jobs call adds and
\* removes no job, leaves the jobs it was not given unchanged, and of a job it
\* was given changes only is_active, to false, and the last-seen bookkeeping.
C21_NeverDeleted ==
    [][/\ existing_job_uuids \subseteq existing_job_uuids'
       /\ active_job_uuids' \subseteq existing_job_uuids'
       /\ lastOp'.op = "deactivate_jobs" =>
             /\ Cardinality(jobs') = Cardinality(jobs)
             /\ \A r \in jobs : \E n \in jobs' :
                   /\ n.job_uuid = r.job_uuid
                   /\ IF r.job_uuid \in lastOp'.job_uuids
                      THEN /\ n = [r EXCEPT !.last_seen_run_id = n.last_seen_run_id,
                                            !.last_seen_at = n.last_seen_at,
                                            !.is_active = FALSE]
                           /\ n.last_seen_at = clock
                      ELSE n = r]_vars

\* deactivate_jobs was given the active job j1 while j2 was stored and
\* active; both are still stored and j2 is still active.
C21_Witness ==
    /\ lastOp.op = "deactivate_jobs" /\ lastOp.job_uuids = {"j1"}
    /\ lastOp.pre_active = {"j1", "j2"}
    /\ Stored("j1") /\ ~JobRow("j1").is_active
    /\ Stored("j2") /\ JobRow("j2").is_active

\* C22: after a record_statuses call there is one status per (run_id,
\* job_uuid), each one of added, maintained and removed; every identifier the
\* call was given has the status written last for it, replacing what the run
\* had for it; the run's other statuses and the statuses of other runs are
\* unchanged.
C22_StatusKeyedOverwrite ==
    [][lastOp'.op = "record_statuses" =>
        LET r == lastOp'.run_id
            given == lastOp'.added \cup lastOp'.maintained \cup lastOp'.removed
        IN  /\ \A s, t \in job_run_status' :
                  (s.run_id = t.run_id /\ s.job_uuid = t.job_uuid) => s = t
            /\ \A s \in job_run_status' : s.status \in {"added", "maintained", "removed"}
            /\ \A u \in given :
                  [run_id |-> r, job_uuid |-> u,
                   status |-> IF u \in lastOp'.removed THEN "removed"
                              ELSE IF u \in lastOp'.maintained THEN "maintained"
                              ELSE "added"] \in job_run_status'
            /\ {s \in job_run_status' : s.run_id # r \/ s.job_uuid \notin given}
                  = {s \in job_run_status : s.run_id # r \/ s.job_uuid \notin given}]_vars

\* record_statuses has replaced the "added" of j1 in one run by "removed"
\* while another run holds a status of j1.
C22_Witness ==
    /\ lastOp.op = "record_statuses"
    /\ [run_id |-> lastOp.run_id, job_uuid |-> "j1", status |-> "added"] \in lastOp.pre_status
    /\ [run_id |-> lastOp.run_id, job_uuid |-> "j1", status |-> "removed"] \in job_run_status
    /\ \E s \in job_run_status : s.run_id # lastOp.run_id /\ s.job_uuid = "j1"

\* C23: no step changes first_seen_run_id or first_seen_at of a stored job,
\* and a job appears in the table only by upsert_new_job_detail, with the
\* call's run identifier and time as its first-seen bookkeeping.
C23_FirstSeenImmutable ==
    [][/\ \A r \in jobs : \E n \in jobs' :
             /\ n.job_uuid = r.job_uuid
             /\ n.first_seen_run_id = r.first_seen_run_id
             /\ n.first_seen_at = r.first_seen_at
       /\ \A n \in jobs' : ~Stored(n.job_uuid) =>
             /\ lastOp'.op = "upsert_new_job_detail"
             /\ n.job_uuid \in lastOp'.job_uuids
             /\ n.first_seen_run_id = lastOp'.run_id
             /\ n.first_seen_at = clock]_vars

\* A job first seen in one run has been upserted again in a later run at a
\* later time.
C23_Witness ==
    /\ lastOp.op = "upsert_new_job_detail"
    /\ \E j \in lastOp.job_uuids :
          /\ Stored(j)
          /\ JobRow(j).last_seen_run_id = lastOp.run_id
          /\ JobRow(j).first_seen_run_id # lastOp.run_id
          /\ JobRow(j).first_seen_at # JobRow(j).last_seen_at

\* C24: a touch_jobs or deactivate_jobs call leaves existing_job_uuids()
\* unchanged, and the jobs table and active_job_uuids() too when none of the
\* identifiers it was given is stored; the only call after which
\* existing_job_uuids() has grown is upsert_new_job_detail.
C24_OnlyUpsertCreates ==
    [][/\ lastOp'.op \in {"touch_jobs", "deactivate_jobs"} =>
             /\ existing_job_uuids' = existing_job_uuids
             /\ (lastOp'.job_uuids \cap existing_job_uuids = {}) =>
                   (jobs' = jobs /\ active_job_uuids' = active_job_uuids)
       /\ existing_job_uuids' # existing_job_uuids =>
             lastOp'.op = "upsert_new_job_detail"]_vars

\* touch_jobs was given the unstored j2 only, while j1 is stored and inactive.
C24_Witness ==
    /\ lastOp.op = "touch_jobs" /\ lastOp.job_uuids = {"j2"}
    /\ ~Stored("j2")
    /\ Stored("j1") /\ ~JobRow("j1").is_active
====
